---- MODULE Spec2Model ----
(***************************************************************************)
(* Model of the tag-merge script plugin (TagMergeScriptPlugin.runPlugin):  *)
(* paged loading of the host's tag catalog, the two candidate indexes, the *)
(* merge planner (rules 1 and 2, chain resolution, filtering, sorting) and *)
(* the merge applier.                                                      *)
(*                                                                         *)
(* Strings are sequences of one-character strings, so that trim,           *)
(* toLowerCase and the "ns NUL value" key are computed, not assumed.       *)
(***************************************************************************)
EXTENDS Integers, Sequences, FiniteSets, TLC

VARIABLES
    hostTags,            \* the host's tag table, as tags.list pages it out
    pc,                  \* position of runPlugin: the await it is suspended at
    pageSize,            \* const pageSize
    dryRun,              \* const dryRun
    deleteSource,        \* const deleteSource
    maxMerges,           \* const maxMerges
    total,               \* const total (from the first page)
    offset,              \* let offset
    tags,                \* const tags: TagListItem[]
    translationIndex,    \* Map (ns NUL translation) -> id, 0 = ambiguous
    canonicalCandidates, \* Map normalized name/translation -> Set of ids
    idToNs,              \* Map id -> namespace
    sourceToTarget,      \* Map sourceId -> targetId, with its insertion order
    merges,              \* the merge plan
    toApply,             \* the part of the plan the applier executes
    applied,             \* let applied
    hostCalls,           \* every callHost request issued so far, in order
    emitted,             \* every emitData of the run, in order
    progress,            \* every reportProgress of the run, in order
    outputs,             \* every outputResult of the run, in order
    cursor,              \* ingest: the number of items its loop has consumed
    probe                \* resolve: the id it was called with and what it did

vars == << hostTags, pc, pageSize, dryRun, deleteSource, maxMerges, total, offset,
           tags, translationIndex, canonicalCandidates, idToNs, sourceToTarget,
           merges, toApply, applied, hostCalls, emitted, progress, outputs,
           cursor, probe >>

-----------------------------------------------------------------------------
\* Bounds of the model.

\* largest tag id the host hands out
MaxId == 3
\* longest tag table of the planner specification
MaxTags == 3
\* longest tag table of the full-run specification
MaxHostTags == 3
\* largest max_merges parameter tried
MaxMergesParam == 2
\* largest page_size parameter tried (besides the default and an oversized one)
MaxPageParam == 2
BulkTags == 102

-----------------------------------------------------------------------------
\* Strings.

NUL == "\\u0000"
SPACE == " "

\* the characters String.prototype.trim strips (of the alphabet used here)
IsSpace(c) == c = SPACE

\* String.prototype.toLowerCase, per character
LowerChar(c) ==
    CASE c = "A" -> "a"
      [] c = "B" -> "b"
      [] c = "F" -> "f"
      [] c = "O" -> "o"
      [] c = "R" -> "r"
      [] c = "Z" -> "z"
      [] OTHER -> c

ToLowerCase(s) == [i \in 1..Len(s) |-> LowerChar(s[i])]

RECURSIVE TrimStart(_)
TrimStart(s) ==
    IF s = << >> THEN s
    ELSE IF IsSpace(Head(s)) THEN TrimStart(Tail(s)) ELSE s

RECURSIVE TrimEnd(_)
TrimEnd(s) ==
    IF s = << >> THEN s
    ELSE IF IsSpace(s[Len(s)]) THEN TrimEnd(SubSeq(s, 1, Len(s) - 1)) ELSE s

\* String.prototype.trim
Trim(s) == TrimEnd(TrimStart(s))

\* function norm: String(s ?? "").trim().toLowerCase()
norm(s) == ToLowerCase(Trim(s))

\* function nsKey: `${ns}\u0000${value}`
nsKey(ns, value) == ns \o << NUL >> \o value

StrOther == << "o", "t", "h", "e", "r" >>
StrEmpty == << >>

\* function isOtherLike
\* (variant: the empty namespace is not recognised)
isOtherLike_OnlyOther(ns) == ns = StrOther

isOtherLike(ns) == ns = StrOther \/ ns = StrEmpty

-----------------------------------------------------------------------------
\* JavaScript Map and Set operations used by the plugin.

EmptyMap == [k \in {} |-> 0]
MapHas(m, k) == k \in DOMAIN m
MapSet(m, k, v) == [x \in (DOMAIN m) \cup {k} |-> IF x = k THEN v ELSE m[x]]

\* set = map.get(k); if (!set) map.set(k, set = new Set()); set.add(id)
AddToSetAt(m, k, id) ==
    MapSet(m, k, (IF MapHas(m, k) THEN m[k] ELSE {}) \cup {id})

\* A Map whose iteration order is observed: keys in first-insertion order.
EmptyOrderedMap == [keys |-> << >>, val |-> EmptyMap]
OrderedSet(m, k, v) ==
    [keys |-> IF MapHas(m.val, k) THEN m.keys ELSE Append(m.keys, k),
     val  |-> MapSet(m.val, k, v)]

-----------------------------------------------------------------------------
\* Tag records as the host sends them. A number is [nan, n]: Number(it.id) of
\* a non-numeric id is NaN; the flag stands for every value that is not finite.

Num(n) == [nan |-> FALSE, n |-> n]
NaN == [nan |-> TRUE, n |-> 0]

RawTag(id, ns, name, t) ==
    [id |-> id, namespace |-> ns, name |-> name, translation_text |-> t]

\* The loop body of ingest, on the state of the loader
\* st = [tags, translationIndex, canonicalCandidates, idToNs].
\* (variant: a second tag overwrites the entry instead of poisoning it)
IndexTranslation_LastWins(ti, k, id) == MapSet(ti, k, id)

\* (variant: the first tag of a key keeps the entry)
IndexTranslation_FirstWins(ti, k, id) ==
    IF ~MapHas(ti, k) THEN MapSet(ti, k, id) ELSE ti

\* (variant: an entry found ambiguous is given to the next tag of the key)
IndexTranslation_ForgetsAmbiguity(ti, k, id) ==
    IF ~MapHas(ti, k) THEN MapSet(ti, k, id)
    ELSE IF ti[k] = 0 THEN MapSet(ti, k, id)
    ELSE IF ti[k] # id THEN MapSet(ti, k, 0)
    ELSE ti

\* prev === undefined -> set id; prev !== id -> set 0 (ambiguous)
IndexTranslation(ti, k, id) ==
    IF ~MapHas(ti, k) THEN MapSet(ti, k, id)
    ELSE IF ti[k] # id THEN MapSet(ti, k, 0)
    ELSE ti

\* (variant: the translation index is keyed by the tag's name)
IndexNonOther_ByName(st, id, ns, nameKey, trKey) ==
    [tags |-> st.tags,
     translationIndex |->
         IF nameKey # << >>
         THEN IndexTranslation(st.translationIndex, nsKey(ns, nameKey), id)
         ELSE st.translationIndex,
     canonicalCandidates |-> st.canonicalCandidates,
     idToNs |-> st.idToNs]

\* lines 109-128: the index entries of a tag outside the otherlike namespaces
IndexNonOther(st, id, ns, nameKey, trKey) ==
    [tags |-> st.tags,
     translationIndex |->
         IF trKey # << >>
         THEN IndexTranslation(st.translationIndex, nsKey(ns, trKey), id)
         ELSE st.translationIndex,
     canonicalCandidates |->
         IF nameKey # << >> /\ trKey # << >>
         THEN AddToSetAt(AddToSetAt(st.canonicalCandidates, nameKey, id), trKey, id)
         ELSE IF nameKey # << >> THEN AddToSetAt(st.canonicalCandidates, nameKey, id)
         ELSE IF trKey # << >> THEN AddToSetAt(st.canonicalCandidates, trKey, id)
         ELSE st.canonicalCandidates,
     idToNs |-> st.idToNs]

\* lines 106-107: tags.push(...); idToNs.set(id, ns)
PushTag(st, id, ns, name, t) ==
    [tags |-> Append(st.tags, [id |-> id, namespace |-> ns, name |-> name,
                               translation_text |-> t]),
     translationIndex |-> st.translationIndex,
     canonicalCandidates |-> st.canonicalCandidates,
     idToNs |-> MapSet(st.idToNs, id, ns)]

IngestValid(st, id, ns, name, t) ==
    IF isOtherLike(ns) THEN PushTag(st, id, ns, name, t)
    ELSE IndexNonOther(PushTag(st, id, ns, name, t), id, ns, norm(name), norm(t))

\* (variant: only an id that is not finite is skipped)
IngestItem_KeepsNonPositive(st, it) ==
    IF it.id.nan THEN st
    ELSE IngestValid(st, it.id.n, Trim(it.namespace), Trim(it.name),
                     Trim(it.translation_text))

\* (variant: a record with a non-positive id is not retained but is indexed)
IngestItem_IndexesSkipped(st, it) ==
    IF it.id.nan THEN st
    ELSE IF it.id.n > 0
    THEN IngestValid(st, it.id.n, Trim(it.namespace), Trim(it.name),
                     Trim(it.translation_text))
    ELSE IF isOtherLike(Trim(it.namespace)) THEN st
    ELSE IndexNonOther(st, it.id.n, Trim(it.namespace), norm(Trim(it.name)),
                       norm(Trim(it.translation_text)))

\* The loop body of ingest: id not finite or <= 0 -> continue.
IngestItem(st, it) ==
    IF it.id.nan \/ it.id.n <= 0 THEN st
    ELSE IngestValid(st, it.id.n, Trim(it.namespace), Trim(it.name),
                     Trim(it.translation_text))

\* const ingest = (items) => { for (const it of items || []) ... }
RECURSIVE ingest(_, _)
ingest(st, items) ==
    IF items = << >> THEN st
    ELSE ingest(IngestItem(st, Head(items)), Tail(items))

EmptyLoad ==
    [tags |-> << >>, translationIndex |-> EmptyMap,
     canonicalCandidates |-> EmptyMap, idToNs |-> EmptyMap]

-----------------------------------------------------------------------------
\* The merge planner.

\* Rule (2), for an otherlike tag: the target, or 0 for no edge.
OnlyCandidate(targetId, sourceId) ==
    IF targetId # 0 /\ targetId # sourceId THEN targetId ELSE 0

\* (variant: any non-empty candidate set proposes its least member)
Rule2_AnyCandidate(cc, sourceId, nameKey) ==
    IF ~MapHas(cc, nameKey) THEN 0
    ELSE OnlyCandidate(CHOOSE x \in cc[nameKey] : \A y \in cc[nameKey] : x <= y,
                       sourceId)

Rule2(cc, sourceId, nameKey) ==
    IF ~MapHas(cc, nameKey) THEN 0
    ELSE IF Cardinality(cc[nameKey]) # 1 THEN 0
    ELSE OnlyCandidate(CHOOSE x \in cc[nameKey] : TRUE, sourceId)

\* (variant: the tag's own id is not excluded)
Rule1_SelfAllowed(ti, sourceId, ns, nameKey) ==
    IF ~MapHas(ti, nsKey(ns, nameKey)) THEN 0 ELSE ti[nsKey(ns, nameKey)]

\* Rule (1), for any other tag: the target, or 0 for no edge.
Rule1(ti, sourceId, ns, nameKey) ==
    LET k == nsKey(ns, nameKey)
    IN  IF ~MapHas(ti, k) THEN 0
        ELSE IF ti[k] = 0 \/ ti[k] = sourceId THEN 0
        ELSE ti[k]

\* One iteration of "for (const it of tags)": the edge map after the tag.
SetEdge(s2t, sourceId, targetId) ==
    IF targetId = 0 THEN s2t ELSE OrderedSet(s2t, sourceId, targetId)

ProposeFor(s2t, sourceId, ns, nameKey, ti, cc) ==
    IF nameKey = << >> THEN s2t
    ELSE IF isOtherLike(ns) THEN SetEdge(s2t, sourceId, Rule2(cc, sourceId, nameKey))
    ELSE SetEdge(s2t, sourceId, Rule1(ti, sourceId, ns, nameKey))

ProposeEdge(s2t, it, ti, cc) ==
    ProposeFor(s2t, it.id, Trim(it.namespace), norm(it.name), ti, cc)

RECURSIVE ProposeEdges(_, _, _, _)
ProposeEdges(s2t, tagList, ti, cc) ==
    IF tagList = << >> THEN s2t
    ELSE ProposeEdges(ProposeEdge(s2t, Head(tagList), ti, cc), Tail(tagList), ti, cc)

\* const resolve = (id) => { let cur = id; const seen = new Set(); while (true) ... }
RECURSIVE ResolveLoop(_, _, _)
ResolveLoop(edges, cur, seen) ==
    IF ~MapHas(edges, cur) THEN cur
    ELSE LET next == edges[cur]
         IN  IF next = 0 THEN cur
             ELSE IF next \in seen THEN cur
             ELSE ResolveLoop(edges, next, seen \cup {next})

resolve(edges, id) == ResolveLoop(edges, id, {})

\* The same function one iteration of its "while (true)" at a time. A call is
\* [id, cur, seen] with the iterations begun so far and whether it has returned
\* (cur is then the value returned).
ResolveCall(id) ==
    [id |-> id, cur |-> id, seen |-> {}, steps |-> 0, returned |-> FALSE]

\* (variant: the id visited is not remembered)
ResolveIter_ForgetsSeen(edges, c) ==
    LET next == IF MapHas(edges, c.cur) THEN edges[c.cur] ELSE 0
    IN  IF next = 0 \/ next \in c.seen
        THEN [c EXCEPT !.steps = c.steps + 1, !.returned = TRUE]
        ELSE [c EXCEPT !.steps = c.steps + 1, !.cur = next]

ResolveIter(edges, c) ==
    LET next == IF MapHas(edges, c.cur) THEN edges[c.cur] ELSE 0
    IN  IF next = 0 \/ next \in c.seen
        THEN [c EXCEPT !.steps = c.steps + 1, !.returned = TRUE]
        ELSE [c EXCEPT !.steps = c.steps + 1, !.cur = next,
                       !.seen = c.seen \cup {next}]

\* idToNs.get(id) ?? ""
NsOf(ns, id) == IF MapHas(ns, id) THEN ns[id] ELSE StrEmpty

\* (variant: the otherlike -> otherlike filter is missing)
KeepMerge_NoOtherFilter(sourceId, finalTarget, ns) == finalTarget # sourceId

\* The body of "for (const [sourceId, targetId] of sourceToTarget.entries())":
\* whether the edge is kept, after resolution.
KeepMerge(sourceId, finalTarget, ns) ==
    /\ finalTarget # sourceId
    /\ ~(isOtherLike(NsOf(ns, sourceId)) /\ isOtherLike(NsOf(ns, finalTarget)))

\* (variant: the entry is pushed with the source as its target)
PushMerge_SourceAsTarget(ms, sourceId, finalTarget, ns) ==
    IF KeepMerge(sourceId, finalTarget, ns)
    THEN Append(ms, [sourceId |-> sourceId, targetId |-> sourceId])
    ELSE ms

PushMerge(ms, sourceId, finalTarget, ns) ==
    IF KeepMerge(sourceId, finalTarget, ns)
    THEN Append(ms, [sourceId |-> sourceId, targetId |-> finalTarget])
    ELSE ms

RECURSIVE CollectMerges(_, _, _, _)
CollectMerges(ms, keys, edges, ns) ==
    IF keys = << >> THEN ms
    ELSE CollectMerges(
             PushMerge(ms, Head(keys), resolve(edges, edges[Head(keys)]), ns),
             Tail(keys), edges, ns)

\* (variant: the plan is left in the iteration order of the edge map)
SortBySourceId_Unsorted(ms) == ms

\* merges.sort((a, b) => a.sourceId - b.sourceId): a stable sort.
RECURSIVE InsertSorted(_, _)
InsertSorted(sorted, m) ==
    IF sorted = << >> THEN << m >>
    ELSE IF m.sourceId - Head(sorted).sourceId < 0 THEN << m >> \o sorted
    ELSE << Head(sorted) >> \o InsertSorted(Tail(sorted), m)

RECURSIVE SortBySourceId(_)
SortBySourceId(ms) ==
    IF ms = << >> THEN << >>
    ELSE InsertSorted(SortBySourceId(SubSeq(ms, 1, Len(ms) - 1)), ms[Len(ms)])

\* Lines 148-193: the edge map and the plan of a loaded catalog.
BuildEdges(st) ==
    ProposeEdges(EmptyOrderedMap, st.tags, st.translationIndex, st.canonicalCandidates)

BuildPlan(s2t, ns) == SortBySourceId(CollectMerges(<< >>, s2t.keys, s2t.val, ns))

-----------------------------------------------------------------------------
\* Plugin parameters, as JavaScript values: undefined, a boolean or a number.

JsUndefined == [t |-> "undefined", b |-> FALSE, n |-> 0]
JsBool(b) == [t |-> "boolean", b |-> b, n |-> 0]
JsNum(n) == [t |-> "number", b |-> FALSE, n |-> n]

\* v ?? d
Nullish(v, d) == IF v.t = "undefined" THEN d ELSE v

\* Boolean(v)
ToBoolean(v) ==
    CASE v.t = "undefined" -> FALSE
      [] v.t = "boolean"   -> v.b
      [] v.t = "number"    -> v.n # 0

\* Number(v), for the parameter values used here (none of them NaN)
ToNumber(v) ==
    CASE v.t = "boolean" -> IF v.b THEN 1 ELSE 0
      [] v.t = "number"  -> v.n
      [] OTHER           -> 0

Max(a, b) == IF a >= b THEN a ELSE b
Min(a, b) == IF a <= b THEN a ELSE b

PageSizeLimit == 2000
PageSizeDefault == 1000

\* const pageSize = Math.min(2000, Math.max(1, Number(params.page_size ?? 1000)))
PageSizeOf(raw) == Min(PageSizeLimit, Max(1, ToNumber(Nullish(raw, JsNum(PageSizeDefault)))))

\* const dryRun = Boolean(params.dry_run ?? true)
DryRunOf(raw) == ToBoolean(Nullish(raw, JsBool(TRUE)))

\* const deleteSource = Boolean(params.delete_source ?? true)
DeleteSourceOf(raw) == ToBoolean(Nullish(raw, JsBool(TRUE)))

\* const maxMerges = Math.max(0, Number(params.max_merges ?? 0))
MaxMergesOf(raw) == Max(0, ToNumber(Nullish(raw, JsNum(0))))

\* (variant: the cap is off by one)
ToApplyOf_OffByOne(plan, cap) ==
    IF cap > 0 THEN SubSeq(plan, 1, Min(cap + 1, Len(plan))) ELSE plan

\* const toApply = maxMerges > 0 ? merges.slice(0, maxMerges) : merges
ToApplyOf(plan, cap) ==
    IF cap > 0 THEN SubSeq(plan, 1, Min(cap, Len(plan))) ELSE plan

-----------------------------------------------------------------------------
\* The host: tags.list pages the tag table out, tags.merge folds one tag into
\* another. Requests are recorded in hostCalls.

ListCall(limit, off) ==
    [method |-> "tags.list", limit |-> limit, offset |-> off,
     sourceId |-> 0, targetId |-> 0, deleteSource |-> FALSE]

MergeCall(m, del) ==
    [method |-> "tags.merge", limit |-> 0, offset |-> 0,
     sourceId |-> m.sourceId, targetId |-> m.targetId, deleteSource |-> del]

\* tags.list(lang, limit, offset) -> { total, limit, offset, items }
HostList(table, limit, off) ==
    [total |-> Len(table),
     items |-> SubSeq(table, off + 1, Min(off + limit, Len(table)))]

\* outputResult({ success: true, data: { dry_run: true, total_tags, planned_merges } })
DryRunResult(nTags, nPlanned) ==
    [success |-> TRUE, dry_run |-> TRUE, total_tags |-> nTags,
     planned_merges |-> nPlanned, has_applied |-> FALSE, applied_merges |-> 0,
     has_error |-> FALSE]

\* (variant: the planned merges are reported as applied)
AppliedResult_CountsPlanned(nTags, nPlanned, nApplied) ==
    [success |-> TRUE, dry_run |-> FALSE, total_tags |-> nTags,
     planned_merges |-> nPlanned, has_applied |-> TRUE, applied_merges |-> nPlanned,
     has_error |-> FALSE]

\* outputResult({ success: true, data: { dry_run: false, ..., applied_merges } })
AppliedResult(nTags, nPlanned, nApplied) ==
    [success |-> TRUE, dry_run |-> FALSE, total_tags |-> nTags,
     planned_merges |-> nPlanned, has_applied |-> TRUE, applied_merges |-> nApplied,
     has_error |-> FALSE]

PlanPreviewLimit == 200

\* emitData("merge_plan", { merges: merges.slice(0, 200), total: merges.length })
MergePlanData(plan) ==
    [type |-> "merge_plan",
     merges |-> SubSeq(plan, 1, Min(PlanPreviewLimit, Len(plan))),
     total |-> Len(plan)]

\* reportProgress(value, message): the value, the phase the message names and
\* the count the message shows (the offset, the tags, the merges applied).
Report(value, phase, at) == [value |-> value, phase |-> phase, at |-> at]

\* line 136: Math.min(60, Math.floor((offset / Math.max(1, total)) * 60)),
\* for integers, in exact arithmetic
LoadProgress(off, tot) ==
    Report(Min(60, (off * 60) \div Max(1, tot)), "Loading", off)

\* line 207: 70 + Math.floor((applied / Math.max(1, toApply.length)) * 30)
MergeProgress(n, len) ==
    Report(70 + ((n * 30) \div Max(1, len)), "Merging", n)

\* (variant: progress is reported before every merge)
ProgressAtMerge_EveryMerge(n, len) ==
    IF n < len THEN Append(progress, MergeProgress(n, len)) ELSE progress

\* lines 205-208: the top of the apply loop, entered with n merges applied
ProgressAtMerge(n, len) ==
    IF n < len /\ n % 50 = 0 THEN Append(progress, MergeProgress(n, len))
    ELSE progress

\* line 146, and lines 205-208 when the apply loop is entered
ProgressAtPlan(ta, nTags) ==
    IF ~dryRun /\ ta # << >>
    THEN progress \o << Report(65, "Building", nTags), MergeProgress(0, Len(ta)) >>
    ELSE Append(progress, Report(65, "Building", nTags))

\* no resolve call has been made
NoProbe == [id |-> 0, cur |-> 0, seen |-> {}, steps |-> 0, returned |-> FALSE]

-----------------------------------------------------------------------------
\* Inputs: the strings and tag tables the specifications draw from.

StrArtist == << "a", "r", "t", "i", "s", "t" >>
StrCharacter == << "c", "h", "a", "r", "a", "c", "t", "e", "r" >>
StrFoo == << "F", "o", "o" >>
StrBar == << "B", "a", "r" >>
StrBaz == << "B", "a", "z" >>
\* the same keys in other spellings, and blanks
StrFooPadded == << " ", "f", "o", "o", " " >>
StrBarUpper == << "B", "A", "R" >>
StrBlank == << " " >>
StrOtherPadded == << " ", "o", "t", "h", "e", "r" >>

\* One namespace, three keys, free ids: chains, cycles, ambiguity.
GraphRecords ==
    { RawTag(Num(i), StrArtist, nm, t) :
        i \in 1..MaxId, nm \in {StrFoo, StrBar, StrBaz},
        t \in {StrEmpty, StrFoo, StrBar, StrBaz} }

\* Four namespaces, two keys in several spellings, blank names, the id is the
\* position.
NamespaceContents ==
    [namespace : {StrArtist, StrCharacter, StrOther, StrEmpty},
     name : {StrFoo, StrBar, StrBlank},
     translation_text : {StrEmpty, StrFooPadded, StrBar, StrBarUpper}]

\* Strings that hold the character nsKey joins its parts with: the namespaces
\* "a" and "a\u0000b", the names and translations "c" and "b\u0000c".
StrA == << "a" >>
StrANulB == << "a", NUL, "b" >>
StrC == << "c" >>
StrBNulC == << "b", NUL, "c" >>

SeparatorContents ==
    [namespace : {StrA, StrANulB},
     name : {StrC, StrBNulC},
     translation_text : {StrEmpty, StrC, StrBNulC}]

\* the table of k records with these contents and the ids 1..k
Positioned(c, k) ==
    [i \in 1..k |->
        RawTag(Num(i), c[i].namespace, c[i].name, c[i].translation_text)]

\* Records that may repeat an id under another namespace.
RepeatedIdRecords ==
    { RawTag(Num(i), ns, nm, t) :
        i \in 1..(MaxId - 1), ns \in {StrArtist, StrOtherPadded},
        nm \in {StrFoo, StrBar}, t \in {StrEmpty, StrFoo, StrBar} }

\* Records whose id may be non-numeric, zero or negative.
InvalidIdRecords ==
    { RawTag(id, ns, nm, t) :
        id \in {NaN, Num(0), Num(-1)} \cup { Num(i) : i \in 1..(MaxId - 1) },
        ns \in {StrArtist, StrOther}, nm \in {StrFoo, StrBar},
        t \in {StrEmpty, StrFoo} }

\* Records of the step-wise load: ids that repeat, with the same contents or
\* with others, and a translation in two spellings; up to MaxItems of them.
IngestRecords ==
    { RawTag(Num(i), ns, nm, t) :
        i \in 1..(MaxId - 1), ns \in {StrArtist, StrOther},
        nm \in {StrFoo, StrBar}, t \in {StrEmpty, StrBar, StrBarUpper} }

MaxItems == MaxTags + 1

\* The tag tables of the full run.
RunContents ==
    [namespace : {StrArtist, StrOther},
     name : {StrFoo, StrBar},
     translation_text : {StrEmpty, StrFoo, StrBar}]

\* A catalog with many merges to apply: the artist tag Foo and, after it,
\* otherlike tags Foo that rule 2 merges into it.
BulkTable ==
    [i \in 1..BulkTags |->
        RawTag(Num(i), IF i = 1 THEN StrArtist ELSE StrOther, StrFoo, StrEmpty)]

PageSizeParams ==
    {JsUndefined, JsNum(PageSizeLimit + 1)} \cup { JsNum(n) : n \in 0..MaxPageParam }
BoolParams == {JsUndefined, JsBool(TRUE), JsBool(FALSE)}
MaxMergesParams == {JsUndefined} \cup { JsNum(n) : n \in (-1)..MaxMergesParam }

-----------------------------------------------------------------------------
\* The run of the plugin: runPlugin, cut at its awaits.

Blank ==
    /\ pageSize = 0
    /\ dryRun = TRUE
    /\ deleteSource = TRUE
    /\ maxMerges = 0
    /\ total = 0
    /\ offset = 0
    /\ tags = << >>
    /\ translationIndex = EmptyMap
    /\ canonicalCandidates = EmptyMap
    /\ idToNs = EmptyMap
    /\ sourceToTarget = EmptyOrderedMap
    /\ merges = << >>
    /\ toApply = << >>
    /\ applied = 0
    /\ hostCalls = << >>
    /\ emitted = << >>
    /\ progress = << >>
    /\ outputs = << >>
    /\ cursor = 0
    /\ probe = NoProbe

Init ==
    /\ \E k \in 0..MaxHostTags :
          \E c \in [1..k -> RunContents] : hostTags = Positioned(c, k)
    /\ pc = "init"
    /\ Blank

\* Lines 68-93: read the parameters, request the first page.
Start ==
    /\ pc = "init"
    /\ \E rawPage \in PageSizeParams, rawDry \in BoolParams,
          rawDel \in BoolParams, rawMax \in MaxMergesParams :
          /\ pageSize' = PageSizeOf(rawPage)
          /\ dryRun' = DryRunOf(rawDry)
          /\ deleteSource' = DeleteSourceOf(rawDel)
          /\ maxMerges' = MaxMergesOf(rawMax)
          /\ hostCalls' = Append(hostCalls, ListCall(PageSizeOf(rawPage), 0))
    /\ pc' = "first"
    /\ UNCHANGED << hostTags, total, offset, tags, translationIndex,
                    canonicalCandidates, idToNs, sourceToTarget, merges,
                    toApply, applied, emitted, progress, outputs, cursor, probe >>

\* Lines 95-213 from the return of a tags.list call to the next await or the
\* end: ingest the page; request the next page while offset < total; else
\* build the plan, and report (dry run) or request the first merge.
\* (variant: the merges are requested all at once and awaited together)
RequestMerges_AllAtOnce(ta, nTags, nPlanned) ==
    /\ toApply' = ta
    /\ IF ta = << >>
       THEN /\ outputs' = Append(outputs, AppliedResult(nTags, nPlanned, 0))
            /\ pc' = "done"
            /\ UNCHANGED hostCalls
       ELSE /\ hostCalls' = hostCalls \o
                               [i \in 1..Len(ta) |-> MergeCall(ta[i], deleteSource)]
            /\ pc' = "merge"
            /\ UNCHANGED outputs

\* (variant: the result is output before the merges are requested)
RequestMerges_ReportFirst(ta, nTags, nPlanned) ==
    /\ toApply' = ta
    /\ outputs' = Append(outputs, AppliedResult(nTags, nPlanned, Len(ta)))
    /\ IF ta = << >>
       THEN /\ pc' = "done"
            /\ UNCHANGED hostCalls
       ELSE /\ hostCalls' = Append(hostCalls, MergeCall(ta[1], deleteSource))
            /\ pc' = "merge"

RequestMerges(ta, nTags, nPlanned) ==
    /\ toApply' = ta
    /\ IF ta = << >>
       THEN /\ outputs' = Append(outputs, AppliedResult(nTags, nPlanned, 0))
            /\ pc' = "done"
            /\ UNCHANGED hostCalls
       ELSE /\ hostCalls' = Append(hostCalls, MergeCall(ta[1], deleteSource))
            /\ pc' = "merge"
            /\ UNCHANGED outputs

\* (variant: the dry-run return is missing)
ReportOrApply_NoDryRun(plan, nTags) ==
    /\ merges' = plan
    /\ RequestMerges(ToApplyOf(plan, maxMerges), nTags, Len(plan))

\* lines 198-204
ReportOrApply(plan, nTags) ==
    /\ merges' = plan
    /\ IF dryRun
       THEN /\ outputs' = Append(outputs, DryRunResult(nTags, Len(plan)))
            /\ pc' = "done"
            /\ UNCHANGED << toApply, hostCalls >>
       ELSE RequestMerges(ToApplyOf(plan, maxMerges), nTags, Len(plan))

\* lines 195-196: the plan is emitted as soon as it is built
EmitPlan(plan, nTags) ==
    /\ progress' = ProgressAtPlan(ToApplyOf(plan, maxMerges), nTags)
    /\ emitted' = Append(emitted, MergePlanData(plan))
    /\ ReportOrApply(plan, nTags)

\* lines 148-193
PlanEdges(s2t, st) ==
    /\ sourceToTarget' = s2t
    /\ EmitPlan(BuildPlan(s2t, st.idToNs), Len(st.tags))

\* lines 132-146
AfterIngest(st, tot, off) ==
    /\ total' = tot
    /\ offset' = off
    /\ tags' = st.tags
    /\ translationIndex' = st.translationIndex
    /\ canonicalCandidates' = st.canonicalCandidates
    /\ idToNs' = st.idToNs
    /\ IF off < tot
       THEN /\ progress' = Append(progress, LoadProgress(off, tot))
            /\ hostCalls' = Append(hostCalls, ListCall(pageSize, off))
            /\ pc' = "page"
            /\ UNCHANGED << sourceToTarget, merges, toApply, emitted, outputs >>
       ELSE PlanEdges(BuildEdges(st), st)

\* (variant: the total is read from every page)
PageArrives_TotalOfEveryPage(resp) ==
    AfterIngest(ingest([tags |-> tags, translationIndex |-> translationIndex,
                        canonicalCandidates |-> canonicalCandidates,
                        idToNs |-> idToNs], resp.items),
                resp.total,
                offset + pageSize)

\* lines 95-96 (first page only), 132-133 and 142-143
PageArrives(resp) ==
    AfterIngest(ingest([tags |-> tags, translationIndex |-> translationIndex,
                        canonicalCandidates |-> canonicalCandidates,
                        idToNs |-> idToNs], resp.items),
                IF pc = "first" THEN resp.total ELSE total,
                offset + pageSize)

\* The response to the request outstanding at pc. Only the first page's total
\* is read (line 95); on later pages the host may report any total.
ListResponses ==
    IF pc = "first" THEN { HostList(hostTags, pageSize, offset) }
    ELSE { [HostList(hostTags, pageSize, offset) EXCEPT !.total = t] :
               t \in 0..(MaxHostTags + 1) }

ListReturn ==
    /\ pc \in {"first", "page"}
    /\ \E resp \in ListResponses : PageArrives(resp)
    /\ UNCHANGED << hostTags, pageSize, dryRun, deleteSource, maxMerges, applied,
                    cursor, probe >>

\* (variant: the entry just confirmed is requested again instead of the next)
MergeReturn_RepeatsEntry ==
    /\ pc = "merge"
    /\ applied' = applied + 1
    /\ UNCHANGED progress
    /\ IF applied + 1 < Len(toApply)
       THEN /\ hostCalls' = Append(hostCalls,
                               MergeCall(toApply[applied + 1], deleteSource))
            /\ pc' = "merge"
            /\ UNCHANGED outputs
       ELSE /\ outputs' = Append(outputs,
                             AppliedResult(Len(tags), Len(merges), applied + 1))
            /\ pc' = "done"
            /\ UNCHANGED hostCalls
    /\ UNCHANGED << hostTags, pageSize, dryRun, deleteSource, maxMerges, total,
                    offset, tags, translationIndex, canonicalCandidates, idToNs,
                    sourceToTarget, merges, toApply, emitted, cursor, probe >>

\* (variant: a result is output after every confirmed merge)
MergeReturn_ReportsEach ==
    /\ pc = "merge"
    /\ applied' = applied + 1
    /\ UNCHANGED progress
    /\ outputs' = Append(outputs, AppliedResult(Len(tags), Len(merges), applied + 1))
    /\ IF applied + 1 < Len(toApply)
       THEN /\ hostCalls' = Append(hostCalls,
                               MergeCall(toApply[applied + 2], deleteSource))
            /\ pc' = "merge"
       ELSE /\ pc' = "done"
            /\ UNCHANGED hostCalls
    /\ UNCHANGED << hostTags, pageSize, dryRun, deleteSource, maxMerges, total,
                    offset, tags, translationIndex, canonicalCandidates, idToNs,
                    sourceToTarget, merges, toApply, emitted, cursor, probe >>

\* Lines 205-213 from the return of a tags.merge call: count it, request the
\* next merge or report.
MergeReturn ==
    /\ pc = "merge"
    /\ applied' = applied + 1
    /\ progress' = ProgressAtMerge(applied + 1, Len(toApply))
    /\ IF applied + 1 < Len(toApply)
       THEN /\ hostCalls' = Append(hostCalls,
                               MergeCall(toApply[applied + 2], deleteSource))
            /\ pc' = "merge"
            /\ UNCHANGED outputs
       ELSE /\ outputs' = Append(outputs,
                             AppliedResult(Len(tags), Len(merges), applied + 1))
            /\ pc' = "done"
            /\ UNCHANGED hostCalls
    /\ UNCHANGED << hostTags, pageSize, dryRun, deleteSource, maxMerges, total,
                    offset, tags, translationIndex, canonicalCandidates, idToNs,
                    sourceToTarget, merges, toApply, emitted, cursor, probe >>

\* (variant: the rejected request is sent once more before the run gives up)
AwaitThrows_RetriedOnce ==
    /\ pc' = "failed"
    /\ hostCalls' = Append(hostCalls, hostCalls[Len(hostCalls)])
    /\ UNCHANGED << hostTags, pageSize, dryRun, deleteSource, maxMerges, total,
                    offset, tags, translationIndex, canonicalCandidates, idToNs,
                    sourceToTarget, merges, toApply, applied, emitted, progress,
                    cursor, probe >>

\* An awaited callHost is rejected. runPlugin has no try/catch: the exception
\* leaves it at the await, and nothing after that await is executed.
AwaitThrows ==
    /\ pc' = "failed"
    /\ UNCHANGED << hostTags, pageSize, dryRun, deleteSource, maxMerges, total,
                    offset, tags, translationIndex, canonicalCandidates, idToNs,
                    sourceToTarget, merges, toApply, applied, hostCalls, emitted,
                    progress, cursor, probe >>

\* The outcome the caller of runPlugin reports for a run that threw:
\* { success: false, error: <message> }, without data.
FailureResult ==
    [success |-> FALSE, dry_run |-> FALSE, total_tags |-> 0,
     planned_merges |-> 0, has_applied |-> FALSE, applied_merges |-> 0,
     has_error |-> TRUE]

HostCallFails ==
    /\ pc \in {"first", "page", "merge"}
    /\ AwaitThrows
    /\ outputs' = Append(outputs, FailureResult)

Next == Start \/ ListReturn \/ MergeReturn \/ HostCallFails

Spec == Init /\ [][Next]_vars

\* The apply loop alone (lines 203-213) on the catalog with many merges, from
\* the run's first tags.merge await: the catalog was loaded in pages of p
\* records, its plan merges every otherlike Foo into tag 1, dry_run is false.
BulkPlan == [i \in 1..(BulkTags - 1) |-> [sourceId |-> i + 1, targetId |-> 1]]

BulkPages(p) == (BulkTags + p - 1) \div p

InitApply ==
    /\ hostTags = BulkTable
    /\ pc = "merge"
    /\ pageSize \in {PageSizeDefault, BulkTags \div 2}
    /\ dryRun = FALSE
    /\ deleteSource \in BOOLEAN
    /\ maxMerges \in {0, BulkTags \div 2}
    /\ total = BulkTags
    /\ offset = BulkPages(pageSize) * pageSize
    /\ tags = [i \in 1..BulkTags |->
                  [id |-> i, namespace |-> hostTags[i].namespace,
                   name |-> StrFoo, translation_text |-> StrEmpty]]
    /\ translationIndex = EmptyMap
    /\ canonicalCandidates = MapSet(EmptyMap, norm(StrFoo), {1})
    /\ idToNs = [i \in 1..BulkTags |-> hostTags[i].namespace]
    /\ sourceToTarget = [keys |-> [i \in 1..(BulkTags - 1) |-> i + 1],
                         val |-> [i \in 2..BulkTags |-> 1]]
    /\ merges = BulkPlan
    /\ toApply = ToApplyOf(BulkPlan, maxMerges)
    /\ applied = 0
    /\ hostCalls = [i \in 1..BulkPages(pageSize) |-> ListCall(pageSize, (i - 1) * pageSize)]
                       \o << MergeCall(toApply[1], deleteSource) >>
    /\ emitted = << MergePlanData(BulkPlan) >>
    /\ progress = [i \in 1..(BulkPages(pageSize) - 1) |->
                      LoadProgress(i * pageSize, BulkTags)]
                      \o << Report(65, "Building", BulkTags),
                            MergeProgress(0, Len(toApply)) >>
    /\ outputs = << >>
    /\ cursor = 0
    /\ probe = NoProbe

NextApply == MergeReturn \/ HostCallFails

SpecApply == InitApply /\ [][NextApply]_vars

-----------------------------------------------------------------------------
\* The planner alone: lines 98-130 and 148-193 applied to a whole tag table.

InitPlan ==
    /\ \E k \in 0..MaxTags :
          \/ hostTags \in [1..k -> GraphRecords]
          \/ hostTags \in [1..k -> RepeatedIdRecords]
          \/ hostTags \in [1..k -> InvalidIdRecords]
          \/ \E c \in [1..k -> NamespaceContents] : hostTags = Positioned(c, k)
          \/ \E c \in [1..k -> SeparatorContents] : hostTags = Positioned(c, k)
    /\ pc = "plan"
    /\ Blank

PlanStore(st, s2t) ==
    /\ tags' = st.tags
    /\ translationIndex' = st.translationIndex
    /\ canonicalCandidates' = st.canonicalCandidates
    /\ idToNs' = st.idToNs
    /\ sourceToTarget' = s2t
    /\ merges' = BuildPlan(s2t, st.idToNs)

PlanFrom(st) == PlanStore(st, BuildEdges(st))

Plan ==
    /\ pc = "plan"
    /\ PlanFrom(ingest(EmptyLoad, hostTags))
    /\ pc' = "planned"
    /\ UNCHANGED << hostTags, pageSize, dryRun, deleteSource, maxMerges, total,
                    offset, toApply, applied, hostCalls, emitted, progress, outputs,
                    cursor, probe >>

NextPlan == Plan

SpecPlan == InitPlan /\ [][NextPlan]_vars

-----------------------------------------------------------------------------
\* ingest one item at a time (lines 99-129), then the planner on what it left.

InitIngest ==
    /\ \E k \in 0..MaxItems : hostTags \in [1..k -> IngestRecords]
    /\ pc = "ingest"
    /\ Blank

\* one iteration of "for (const it of items || [])"
IngestStep ==
    /\ pc = "ingest"
    /\ cursor < Len(hostTags)
    /\ cursor' = cursor + 1
    /\ LET st == IngestItem([tags |-> tags, translationIndex |-> translationIndex,
                             canonicalCandidates |-> canonicalCandidates,
                             idToNs |-> idToNs], hostTags[cursor + 1])
       IN  /\ tags' = st.tags
           /\ translationIndex' = st.translationIndex
           /\ canonicalCandidates' = st.canonicalCandidates
           /\ idToNs' = st.idToNs
    /\ UNCHANGED << hostTags, pc, pageSize, dryRun, deleteSource, maxMerges, total,
                    offset, sourceToTarget, merges, toApply, applied, hostCalls,
                    emitted, progress, outputs, probe >>

\* the items are used up: lines 148-193 on the loader's state
PlanLoaded ==
    /\ pc = "ingest"
    /\ cursor = Len(hostTags)
    /\ PlanFrom([tags |-> tags, translationIndex |-> translationIndex,
                 canonicalCandidates |-> canonicalCandidates, idToNs |-> idToNs])
    /\ pc' = "planned"
    /\ UNCHANGED << hostTags, pageSize, dryRun, deleteSource, maxMerges, total,
                    offset, toApply, applied, hostCalls, emitted, progress, outputs,
                    cursor, probe >>

NextIngest == IngestStep \/ PlanLoaded

SpecIngest == InitIngest /\ [][NextIngest]_vars

-----------------------------------------------------------------------------
\* resolve alone (lines 172-182), called on any edge map over the ids 1..MaxId:
\* cycles, self-loops, chains, several components.

\* the Map with these entries, its keys in ascending order
RECURSIVE AscendingKeys(_, _)
AscendingKeys(dom, from) ==
    IF from > MaxId THEN << >>
    ELSE IF from \in dom THEN << from >> \o AscendingKeys(dom, from + 1)
    ELSE AscendingKeys(dom, from + 1)

EdgeMaps ==
    UNION { [dom -> 1..MaxId] : dom \in SUBSET (1..MaxId) }

InitResolve ==
    /\ hostTags = << >>
    /\ pc = "resolve"
    /\ pageSize = 0 /\ dryRun = TRUE /\ deleteSource = TRUE /\ maxMerges = 0
    /\ total = 0 /\ offset = 0 /\ tags = << >>
    /\ translationIndex = EmptyMap /\ canonicalCandidates = EmptyMap
    /\ idToNs = EmptyMap
    /\ \E e \in EdgeMaps :
          sourceToTarget = [keys |-> AscendingKeys(DOMAIN e, 1), val |-> e]
    /\ merges = << >> /\ toApply = << >> /\ applied = 0
    /\ hostCalls = << >> /\ emitted = << >> /\ progress = << >>
    /\ outputs = << >> /\ cursor = 0
    /\ \E id \in 1..MaxId : probe = ResolveCall(id)

\* one iteration of the loop of lines 175-181
ResolveStep ==
    /\ pc = "resolve"
    /\ probe' = ResolveIter(sourceToTarget.val, probe)
    /\ pc' = IF probe'.returned THEN "resolved" ELSE "resolve"
    /\ UNCHANGED << hostTags, pageSize, dryRun, deleteSource, maxMerges, total,
                    offset, tags, translationIndex, canonicalCandidates, idToNs,
                    sourceToTarget, merges, toApply, applied, hostCalls, emitted,
                    progress, outputs, cursor >>

NextResolve == ResolveStep

SpecResolve == InitResolve /\ [][NextResolve]_vars

-----------------------------------------------------------------------------
\* Vocabulary of the properties. None of it is used by the model above.

OtherlikeNamespaces == { << "o", "t", "h", "e", "r" >>, << >> }

Ids(tagList) == { tagList[i].id : i \in 1..Len(tagList) }
UniqueIds(tagList) ==
    \A i, j \in 1..Len(tagList) : tagList[i].id = tagList[j].id => i = j

\* the tags.merge requests sent so far, in order
MergeCalls == SelectSeq(hostCalls, LAMBDA c : c.method = "tags.merge")

\* the tags.list requests sent so far, in order
ListCalls == SelectSeq(hostCalls, LAMBDA c : c.method = "tags.list")

\* the run has ended by a rejected host call, and that call was a tags.list /
\* a tags.merge
ListFailed ==
    pc = "failed" /\ hostCalls[Len(hostCalls)].method = "tags.list"
MergeFailed ==
    pc = "failed" /\ hostCalls[Len(hostCalls)].method = "tags.merge"

SuccessOutputs == SelectSeq(outputs, LAMBDA r : r.success)
FailureOutputs == SelectSeq(outputs, LAMBDA r : ~r.success)

PlanEntry(s, t) == [sourceId |-> s, targetId |-> t]
PlanSources == { merges[i].sourceId : i \in 1..Len(merges) }

\* the ids a walk along the proposed edges reaches from id a in 1..n steps
RECURSIVE ReachedWithin(_, _, _)
ReachedWithin(edges, a, n) ==
    IF n = 0 \/ a \notin DOMAIN edges THEN {}
    ELSE {edges[a]} \cup ReachedWithin(edges, edges[a], n - 1)

Reaches(a, b) ==
    b \in ReachedWithin(sourceToTarget.val, a, Cardinality(DOMAIN sourceToTarget.val))

OnOneCycle(a, b) == Reaches(a, b) /\ Reaches(b, a)

\* the edge map after the planner's loop has handled tags[1..i]
EdgesAfter(i) ==
    ProposeEdges(EmptyOrderedMap, SubSeq(tags, 1, i), translationIndex,
                 canonicalCandidates)

HasEdgeAt(i, r) ==
    /\ tags[i].id \in DOMAIN EdgesAfter(i).val
    /\ EdgesAfter(i).val[tags[i].id] = r

NoEdgeAt(i) == EdgesAfter(i) = EdgesAfter(i - 1)

IsOtherlikeTag(i) == tags[i].namespace \in OtherlikeNamespaces

\* the ids of the loaded tags of namespace ns whose normalized translation is k
TranslatedAs(ns, k) ==
    { tags[j].id : j \in { x \in 1..Len(tags) :
                             /\ tags[x].namespace = ns
                             /\ norm(tags[x].translation_text) = k } }

\* the ids of the loaded non-otherlike tags whose normalized name is k, or
\* whose translation is present and normalizes to k
NamedOrTranslated(k) ==
    { tags[j].id : j \in { x \in 1..Len(tags) :
                             /\ ~IsOtherlikeTag(x)
                             /\ \/ norm(tags[x].name) = k
                                \/ /\ norm(tags[x].translation_text) # << >>
                                   /\ norm(tags[x].translation_text) = k } }

\* the namespace of the tag with this id: that of its last loaded record
LastRecordOf(id) ==
    CHOOSE i \in 1..Len(tags) :
        /\ tags[i].id = id
        /\ \A j \in 1..Len(tags) : tags[j].id = id => j <= i

NamespaceOfId(id) == tags[LastRecordOf(id)].namespace

-----------------------------------------------------------------------------
\* C1. A dry run issues no tags.merge call: from the moment the parameters are
\* read, a run whose dryRun flag is true (an absent dry_run parameter gives
\* true) has no tags.merge among the calls it has sent to the host, whatever
\* the tag table and the plan.
C1_DryRunNeverMerges ==
    /\ DryRunOf(JsUndefined) = TRUE
    /\ (pc # "init" /\ dryRun) => MergeCalls = << >>

\* C1 witness: a dry run has finished with a non-empty plan.
C1_Witness ==
    /\ pc = "done"
    /\ dryRun
    /\ Len(merges) > 0
    /\ Len(outputs) = 1

\* C2. With dry_run false and no failed host call, the finished run has sent
\* exactly the first min(m, n) plan entries when the cap m is positive, and all
\* n entries when it is 0, one tags.merge each, in plan order, each with the
\* entry's sourceId and targetId; while it runs, the calls sent are a prefix
\* of that list.
C2_Expected ==
    SubSeq(merges, 1,
           IF maxMerges > 0 /\ maxMerges < Len(merges) THEN maxMerges ELSE Len(merges))

C2_AppliesPlanPrefix ==
    /\ (pc = "done" /\ ~dryRun) =>
          /\ Len(MergeCalls) = Len(C2_Expected)
          /\ \A i \in 1..Len(C2_Expected) :
                /\ MergeCalls[i].sourceId = C2_Expected[i].sourceId
                /\ MergeCalls[i].targetId = C2_Expected[i].targetId
    /\ (pc = "merge") =>
          /\ Len(MergeCalls) = applied + 1
          /\ Len(MergeCalls) <= Len(C2_Expected)
          /\ \A i \in 1..Len(MergeCalls) :
                /\ MergeCalls[i].sourceId = C2_Expected[i].sourceId
                /\ MergeCalls[i].targetId = C2_Expected[i].targetId

\* C2 witness (scenario 5): max_merges = 1, a plan of 3 entries, dry-run
\* false, and the run has finished after one merge call.
C2_Witness ==
    /\ pc = "done"
    /\ ~dryRun
    /\ maxMerges = 1
    /\ Len(merges) = 3
    /\ Len(MergeCalls) = 1
    /\ MergeCalls[1].sourceId = merges[1].sourceId

\* C3 (as claimed). Cycle breaking: the plan holds no entry whose source and
\* target lie on one cycle of the proposed edges.
C3_CycleMembersNotMerged ==
    pc = "planned" =>
        \A i \in 1..Len(merges) :
            ~OnOneCycle(merges[i].sourceId, merges[i].targetId)

\* Scenario 1: artist:Foo with translation Bar (id 1), artist:Bar (id 2).
Scenario1 ==
    << RawTag(Num(1), StrArtist, StrFoo, StrBar),
       RawTag(Num(2), StrArtist, StrBar, StrEmpty) >>

\* C4 (as claimed). Scenario 1 yields the edge 1 -> 2 and the plan [1 -> 2].
C4_Scenario1AsClaimed ==
    (pc = "planned" /\ hostTags = Scenario1) =>
        /\ sourceToTarget.val = (1 :> 2)
        /\ merges = << PlanEntry(1, 2) >>

\* C4 (amended). Scenario 1 yields the edge 2 -> 1 and the plan [2 -> 1]: the
\* tag whose name equals the translation is the source, the tag carrying the
\* translation is the target.
C4_Scenario1 ==
    (pc = "planned" /\ hostTags = Scenario1) =>
        /\ translationIndex = (nsKey(StrArtist, << "b", "a", "r" >>) :> 1)
        /\ sourceToTarget.val = (2 :> 1)
        /\ merges = << PlanEntry(2, 1) >>

\* C4 witness: scenario 1 has been planned.
C4_Witness == pc = "planned" /\ hostTags = Scenario1

\* what rule 1 finds for tags[i]: the index entry of (namespace, name key)
Rule1Key(i) == nsKey(tags[i].namespace, norm(tags[i].name))
Rule1Applies(i) ==
    /\ Rule1Key(i) \in DOMAIN translationIndex
    /\ translationIndex[Rule1Key(i)] # 0
    /\ translationIndex[Rule1Key(i)] # tags[i].id

\* C5. Rule 1: for every loaded tag T outside the otherlike namespaces with a
\* non-empty normalized name k, the planner proposes the edge T.id -> r exactly
\* when the translation index has an entry r for (T.namespace, k) that is
\* neither 0 nor T.id, and proposes nothing for T otherwise; r is then the one
\* id among the tags of that namespace whose normalized translation is k. With
\* unique ids the final edge map has an edge from T.id exactly in that case.
C5_Rule1 ==
    pc = "planned" =>
        \A i \in 1..Len(tags) :
            (~IsOtherlikeTag(i) /\ norm(tags[i].name) # << >>) =>
                /\ Rule1Applies(i) =>
                      /\ HasEdgeAt(i, translationIndex[Rule1Key(i)])
                      /\ TranslatedAs(tags[i].namespace, norm(tags[i].name))
                            = { translationIndex[Rule1Key(i)] }
                /\ ~Rule1Applies(i) => NoEdgeAt(i)
                /\ UniqueIds(tags) =>
                      /\ Rule1Applies(i) <=> tags[i].id \in DOMAIN sourceToTarget.val
                      /\ Rule1Applies(i) =>
                            sourceToTarget.val[tags[i].id] = translationIndex[Rule1Key(i)]

\* C5 witness: one tag gets a rule 1 edge, another finds only its own id in
\* the index and gets none.
C5_Witness ==
    /\ pc = "planned"
    /\ \E i, j \in 1..Len(tags) :
          /\ ~IsOtherlikeTag(i) /\ Rule1Applies(i)
          /\ ~IsOtherlikeTag(j) /\ norm(tags[j].name) # << >>
          /\ Rule1Key(j) \in DOMAIN translationIndex
          /\ translationIndex[Rule1Key(j)] = tags[j].id

Rule2Applies(i) ==
    /\ Cardinality(NamedOrTranslated(norm(tags[i].name))) = 1
    /\ NamedOrTranslated(norm(tags[i].name)) # { tags[i].id }

Rule2Holds(i) ==
    /\ Rule2Applies(i) =>
          \E c \in NamedOrTranslated(norm(tags[i].name)) : HasEdgeAt(i, c)
    /\ ~Rule2Applies(i) => NoEdgeAt(i)
    /\ (UniqueIds(tags) /\ ~Rule2Applies(i)) =>
          /\ tags[i].id \notin DOMAIN sourceToTarget.val
          /\ tags[i].id \notin PlanSources

\* C6 (as claimed). Rule 2 for every otherlike tag T with normalized name k,
\* the empty k included: the edge T.id -> c is proposed exactly when one
\* non-otherlike tag id c # T.id has normalized name or translation k.
C6_Rule2AsClaimed ==
    pc = "planned" =>
        \A i \in 1..Len(tags) : IsOtherlikeTag(i) => Rule2Holds(i)

\* C6 (amended). Rule 2 for every otherlike tag T with a non-empty normalized
\* name k: the edge T.id -> c is proposed exactly when the set of
\* non-otherlike tag ids whose normalized name or translation is k has exactly
\* one member c and c # T.id; with no or several candidates nothing is
\* proposed for T and (ids unique) T is no source of the plan.
C6_Rule2 ==
    pc = "planned" =>
        \A i \in 1..Len(tags) :
            (IsOtherlikeTag(i) /\ norm(tags[i].name) # << >>) => Rule2Holds(i)

\* C6 witness: otherlike tags with a name: one absorbed by its single
\* candidate, one left alone because two candidates share its name.
C6_Witness ==
    /\ pc = "planned"
    /\ UniqueIds(tags)
    /\ \E i \in 1..Len(tags) :
          /\ IsOtherlikeTag(i) /\ norm(tags[i].name) # << >>
          /\ Rule2Applies(i)
          /\ tags[i].id \in PlanSources

\* C6 second witness state (scenario 3): two candidates, no edge.
C6_WitnessAmbiguous ==
    /\ pc = "planned"
    /\ \E i \in 1..Len(tags) :
          /\ IsOtherlikeTag(i) /\ norm(tags[i].name) # << >>
          /\ Cardinality(NamedOrTranslated(norm(tags[i].name))) = 2
          /\ merges = << >>

\* two tags with different ids, one namespace outside the otherlike ones, and
\* the same non-empty normalized translation k
AmbiguousKey(ns, k) ==
    /\ ns \notin OtherlikeNamespaces
    /\ k # << >>
    /\ Cardinality(TranslatedAs(ns, k)) >= 2

\* C7. Ambiguity suppresses matching: when two tags with different ids of one
\* non-otherlike namespace have the same normalized translation k, the index
\* entry of (namespace, k) is 0 and no tag of that namespace named k gets a
\* rule 1 edge (so neither of the two is its proposed target), in every
\* loading order.
C7_AmbiguityNoEdge ==
    pc = "planned" =>
        \A i \in 1..Len(tags) :
            AmbiguousKey(tags[i].namespace, norm(tags[i].name)) =>
                /\ translationIndex[Rule1Key(i)] = 0
                /\ NoEdgeAt(i)
                /\ UniqueIds(tags) => tags[i].id \notin DOMAIN sourceToTarget.val

\* C7 witness: a third tag is named like the translation two others share.
C7_Witness ==
    /\ pc = "planned"
    /\ UniqueIds(tags)
    /\ \E i \in 1..Len(tags) :
          /\ AmbiguousKey(tags[i].namespace, norm(tags[i].name))
          /\ tags[i].id \notin TranslatedAs(tags[i].namespace, norm(tags[i].name))

\* C8. No self-merge: every entry of the plan has targetId # sourceId.
C8_NoSelfMerge ==
    pc = "planned" =>
        \A i \in 1..Len(merges) : merges[i].targetId # merges[i].sourceId

\* C8 witness: a plan of several entries, one of them with a target reached
\* by collapsing a chain.
C8_Witness ==
    /\ pc = "planned"
    /\ Len(merges) >= 2
    /\ \E j \in 1..Len(merges) :
          merges[j].targetId # sourceToTarget.val[merges[j].sourceId]

\* C9. No otherlike -> otherlike merge: no plan entry has a source tag and a
\* resolved target tag that are both in an otherlike namespace.
C9_NoOtherToOther ==
    pc = "planned" =>
        \A i \in 1..Len(merges) :
            ~ /\ NamespaceOfId(merges[i].sourceId) \in OtherlikeNamespaces
              /\ NamespaceOfId(merges[i].targetId) \in OtherlikeNamespaces

\* C9 witness: the filter has dropped a proposed edge whose source and
\* resolved target are both otherlike.
C9_Witness ==
    /\ pc = "planned"
    /\ \E s \in DOMAIN sourceToTarget.val :
          /\ NamespaceOfId(s) \in OtherlikeNamespaces
          /\ NamespaceOfId(sourceToTarget.val[s]) \in OtherlikeNamespaces
          /\ s \notin PlanSources

\* C10. Otherlike tags are never merge targets: in a catalog with unique ids
\* the targetId of every plan entry is the id of a loaded tag whose namespace
\* is not otherlike.
C10_TargetsNotOtherlike ==
    (pc = "planned" /\ UniqueIds(tags)) =>
        \A i \in 1..Len(merges) :
            \E j \in 1..Len(tags) :
                /\ tags[j].id = merges[i].targetId
                /\ ~IsOtherlikeTag(j)

\* C10 witness: unique ids, tags in both otherlike namespaces, one of them
\* merged into a tag of another namespace.
C10_Witness ==
    /\ pc = "planned"
    /\ UniqueIds(tags)
    /\ \E i, j \in 1..Len(tags) :
          /\ tags[i].namespace = << >>
          /\ tags[j].namespace = << "o", "t", "h", "e", "r" >>
          /\ tags[j].id \in PlanSources

-----------------------------------------------------------------------------
\* C11. The plan is sorted strictly ascending by sourceId, so no sourceId
\* occurs twice in it, whatever the order of the catalog and of the edge map;
\* the edge map holds each source id once (one outgoing edge per source).
C11_PlanStrictlyAscending ==
    pc = "planned" =>
        /\ \A i, j \in 1..Len(merges) :
               i < j => merges[i].sourceId < merges[j].sourceId
        /\ \A i, j \in 1..Len(sourceToTarget.keys) :
               sourceToTarget.keys[i] = sourceToTarget.keys[j] => i = j

\* a plan of several entries whose edges were proposed in descending order of
\* source id
C11_Witness ==
    /\ pc = "planned"
    /\ Len(merges) >= 2
    /\ \E i \in 1..(Len(sourceToTarget.keys) - 1) :
           /\ sourceToTarget.keys[i] > sourceToTarget.keys[i + 1]
           /\ sourceToTarget.keys[i] \in PlanSources
           /\ sourceToTarget.keys[i + 1] \in PlanSources

-----------------------------------------------------------------------------
\* C12. Every target of the plan is fully resolved: it has no proposed edge of
\* its own and is the source of no plan entry; so the tags.merge requests of a
\* run with delete-source never name as target a tag that an earlier request
\* of the run has deleted.
C12_TargetsFullyResolved ==
    /\ emitted # << >> =>
           \A i \in 1..Len(merges) :
               /\ merges[i].targetId \notin DOMAIN sourceToTarget.val
               /\ merges[i].targetId \notin PlanSources
    /\ \A i, j \in 1..Len(MergeCalls) :
           (i < j /\ MergeCalls[i].deleteSource) =>
               MergeCalls[j].targetId # MergeCalls[i].sourceId

-----------------------------------------------------------------------------
\* C13. A failed tags.list call is fatal and is not retried: the requests of
\* the run are then one tags.list per page received plus the failed one, each
\* page requested once, and no tags.merge; no edge map and no plan is built,
\* nothing is emitted, no success result is output; and from then on no
\* further host call is issued.
C13_ListFailureIsFatal ==
    /\ [](ListFailed =>
            /\ MergeCalls = << >>
            /\ Len(hostCalls) * pageSize = offset + pageSize
            /\ \A i, j \in 1..Len(hostCalls) :
                   hostCalls[i].offset = hostCalls[j].offset => i = j
            /\ sourceToTarget = EmptyOrderedMap
            /\ merges = << >>
            /\ emitted = << >>
            /\ SuccessOutputs = << >>)
    /\ [][ListFailed => (hostCalls' = hostCalls /\ merges' = merges /\ pc' = pc)]_vars

\* a later page is refused after the first page's tags have been ingested
C13_Witness ==
    /\ ListFailed
    /\ Len(hostCalls) >= 2
    /\ tags # << >>

-----------------------------------------------------------------------------
\* C14. When the k-th tags.merge call of a run fails, the tags.merge requests
\* of the run are exactly the first k entries of the list to apply, in order
\* and once each, of which the first k - 1 were confirmed (applied = k - 1);
\* every other request of the run is a tags.list that preceded them (nothing
\* is rolled back); no success result is output; and from then on no further
\* request is issued.
C14_PartialApplication ==
    /\ [](MergeFailed =>
            /\ applied + 1 <= Len(toApply)
            /\ MergeCalls =
                   [i \in 1..(applied + 1) |-> MergeCall(toApply[i], deleteSource)]
            /\ hostCalls = ListCalls \o MergeCalls
            /\ SuccessOutputs = << >>)
    /\ [][MergeFailed => (hostCalls' = hostCalls /\ applied' = applied /\ pc' = pc)]_vars

\* the failing call is neither the first nor the last of the list to apply
C14_Witness ==
    /\ MergeFailed
    /\ applied >= 1
    /\ applied + 1 < Len(toApply)

-----------------------------------------------------------------------------
\* C15, as claimed. Once the plan has been emitted no later step of the run
\* fails: no run that ends by a rejected host call has emitted the plan.
C15_EmissionIsLast ==
    pc = "failed" => emitted = << >>

\* C15. The result is last: once a result has been output the run has ended,
\* it is the only output, and no step follows it. The plan is emitted once,
\* after the last tags.list call has returned and before the first tags.merge
\* request; a run that fails after the emission is not a dry run and fails by
\* a rejected tags.merge call, and a dry run ends with the emission.
C15_ResultIsLast ==
    /\ [](/\ SuccessOutputs # << >> => (pc = "done" /\ Len(outputs) = 1)
          /\ Len(emitted) <= 1
          /\ MergeCalls # << >> => emitted # << >>
          /\ emitted # << >> =>
                 (/\ offset >= total
                  /\ Len(ListCalls) * pageSize = offset
                  /\ emitted[1] = MergePlanData(merges))
          /\ (emitted # << >> /\ pc = "failed") => (~dryRun /\ MergeFailed)
          /\ (emitted # << >> /\ dryRun) => pc = "done")
    /\ [][outputs # << >> => UNCHANGED vars]_vars

\* the plan was emitted, a merge was confirmed, and then a tags.merge call was
\* rejected
C15_Witness ==
    /\ MergeFailed
    /\ emitted # << >>
    /\ applied >= 1

-----------------------------------------------------------------------------
\* C16. A run in which a tags.list or tags.merge call fails ends with exactly
\* one result, which has success = false and an error message; it outputs no
\* result with success = true; and a run outputs a failure result only so.
C16_StructuredFailure ==
    /\ pc = "failed" =>
           /\ Len(outputs) = 1
           /\ ~outputs[1].success
           /\ outputs[1].has_error
           /\ SuccessOutputs = << >>
    /\ FailureOutputs # << >> => pc = "failed"

\* the very first tags.list call is refused
C16_Witness ==
    /\ pc = "failed"
    /\ Len(hostCalls) = 1
    /\ Len(FailureOutputs) = 1

-----------------------------------------------------------------------------
\* C17. With page size p and the total T of the first page's response, the
\* tags.list requests are at the offsets 0, p, 2p, ... in this order, each
\* with limit p, 1 <= p <= 2000; a further page is requested only while the
\* offset is below T; when loading is over exactly max(1, ceil(T / p))
\* requests were sent, whatever totals the later pages reported; and loading
\* always comes to an end: every step of the loader lowers the number of steps
\* it can still take (LoadRank).
CeilDiv(a, b) == (a + b - 1) \div b

LoadingOver == pc \in {"merge", "done"} \/ MergeFailed

\* the first page's response has been read
FirstPageRead == pc \in {"page", "merge", "done"} \/ (pc = "failed" /\ Len(hostCalls) >= 2)

C17_PagedLoadingHolds ==
    /\ (pc # "init" => (1 <= pageSize /\ pageSize <= PageSizeLimit))
    /\ \A i \in 1..Len(ListCalls) :
           /\ ListCalls[i].offset = (i - 1) * pageSize
           /\ ListCalls[i].limit = pageSize
    /\ \A i \in 1..Len(hostCalls) :
           (i < Len(hostCalls) /\ hostCalls[i + 1].method = "tags.list")
               => hostCalls[i].method = "tags.list"
    /\ FirstPageRead => total = Len(hostTags)
    /\ pc = "page" => (Len(ListCalls) - 1) * pageSize < total
    /\ (pc = "page" \/ ListFailed) =>
           Len(ListCalls) <= Max(1, CeilDiv(Len(hostTags), pageSize))
    /\ LoadingOver =>
           /\ Len(ListCalls) = Max(1, CeilDiv(total, pageSize))
           /\ offset >= total

\* the steps the loader can still take: the pages still to be requested or
\* received, and the start
LoadRank ==
    CASE pc = "init"  -> Len(hostTags) + 3
      [] pc = "first" -> Len(hostTags) + 2
      [] pc = "page"  -> CeilDiv(total - offset, pageSize)
      [] OTHER        -> 0

C17_PagedLoading ==
    /\ [](C17_PagedLoadingHolds /\ LoadRank >= 0)
    /\ [][(pc \in {"init", "first", "page"}) => (LoadRank' < LoadRank)]_vars

\* three tags loaded in pages of two: two requests, the second page short
C17_Witness ==
    /\ LoadingOver
    /\ pageSize = 2
    /\ total = 3
    /\ Len(ListCalls) = 2
    /\ Len(tags) = 3

-----------------------------------------------------------------------------
\* C18. A record whose id is not a finite number above 0 is skipped and the
\* records after it are still ingested: the loaded tags are the records with
\* a finite id > 0, in their order, with trimmed texts; no index and no plan
\* entry holds an id that only a skipped record carries.
ValidId(r) == ~r.id.nan /\ r.id.n > 0

ValidRecords == SelectSeq(hostTags, ValidId)

ValidIds == { ValidRecords[i].id.n : i \in 1..Len(ValidRecords) }

C18_InvalidIdsSkipped ==
    pc = "planned" =>
        /\ Len(tags) = Len(ValidRecords)
        /\ \A i \in 1..Len(tags) :
               /\ tags[i].id = ValidRecords[i].id.n
               /\ tags[i].id > 0
               /\ tags[i].namespace = Trim(ValidRecords[i].namespace)
               /\ tags[i].name = Trim(ValidRecords[i].name)
               /\ tags[i].translation_text = Trim(ValidRecords[i].translation_text)
        /\ DOMAIN idToNs = ValidIds
        /\ \A k \in DOMAIN translationIndex : translationIndex[k] \in ValidIds \cup {0}
        /\ \A k \in DOMAIN canonicalCandidates : canonicalCandidates[k] \subseteq ValidIds
        /\ DOMAIN sourceToTarget.val \subseteq ValidIds
        /\ \A i \in 1..Len(merges) :
               merges[i].sourceId \in ValidIds /\ merges[i].targetId \in ValidIds

\* a record with a bad id, of the namespace and name that would make it the
\* target of a later otherlike tag, is followed by records that are loaded
\* and planned
C18_Witness ==
    /\ pc = "planned"
    /\ Len(hostTags) >= 3
    /\ ~ValidId(hostTags[1])
    /\ ~isOtherLike(Trim(hostTags[1].namespace))
    /\ \E i \in 2..Len(hostTags) :
           /\ ValidId(hostTags[i])
           /\ isOtherLike(Trim(hostTags[i].namespace))
           /\ norm(hostTags[i].name) = norm(hostTags[1].name)
    /\ Len(tags) = Len(hostTags) - 1
    /\ merges # << >>

-----------------------------------------------------------------------------
\* C19. At most one host call is outstanding at any moment, and a call is
\* issued only when every earlier call has settled; the tags.list requests
\* all precede the tags.merge requests; and when a tags.merge request exists,
\* every tags.list call has returned, the whole table is loaded, and the edge
\* map and the plan are those of the loaded catalog.
SettledCalls ==
    IF pc = "init" THEN 0
    ELSE (offset \div pageSize) + applied + (IF pc = "failed" THEN 1 ELSE 0)

Loaded ==
    [tags |-> tags, translationIndex |-> translationIndex,
     canonicalCandidates |-> canonicalCandidates, idToNs |-> idToNs]

C19_SequentialPhases ==
    /\ Len(hostCalls) - SettledCalls =
           (IF pc \in {"first", "page", "merge"} THEN 1 ELSE 0)
    /\ hostCalls = ListCalls \o MergeCalls
    /\ MergeCalls # << >> =>
           /\ offset >= total
           /\ Len(ListCalls) * pageSize = offset
           /\ Len(tags) = Len(hostTags)
           /\ sourceToTarget = BuildEdges(Loaded)
           /\ merges = BuildPlan(sourceToTarget, idToNs)
           /\ Len(MergeCalls) <= Len(merges)

\* the table came in several pages and the second merge is outstanding
C19_Witness ==
    /\ pc = "merge"
    /\ Len(ListCalls) >= 2
    /\ applied = 1
    /\ Len(MergeCalls) = 2

-----------------------------------------------------------------------------
\* C20. A run that ends well outputs one result, with success, total_tags (the
\* tags loaded) and planned_merges (the length of the whole plan). A dry run
\* reports no applied_merges and has requested no merge. A run that is not
\* dry reports applied_merges, the number of tags.merge calls requested and
\* returned: min(max_merges, planned_merges) when max_merges > 0, else
\* planned_merges.
C20_FinalResult ==
    pc = "done" =>
        /\ Len(outputs) = 1
        /\ outputs[1].success
        /\ ~outputs[1].has_error
        /\ outputs[1].total_tags = Len(tags)
        /\ outputs[1].planned_merges = Len(merges)
        /\ outputs[1].dry_run = dryRun
        /\ dryRun => (~outputs[1].has_applied /\ MergeCalls = << >>)
        /\ ~dryRun =>
               /\ outputs[1].has_applied
               /\ outputs[1].applied_merges = Len(MergeCalls)
               /\ outputs[1].applied_merges = applied
               /\ outputs[1].applied_merges =
                      (IF maxMerges > 0 THEN Min(maxMerges, Len(merges))
                       ELSE Len(merges))

\* the cap is below the length of the plan
C20_Witness ==
    /\ pc = "done"
    /\ ~dryRun
    /\ maxMerges = 1
    /\ Len(merges) >= 2
    /\ outputs[1].applied_merges = 1

\* C21: on every finite edge map (cycles, self-loops, chains, several
\* components) resolve(id) begins at most (distinct ids of the map) + 1
\* iterations, every iteration it begins is counted and brings it nearer that
\* limit until it returns, and it returns the start id or an id reached from
\* it along the edges: the value the planner's resolve computes.
MapIds(edges) == (DOMAIN edges) \cup { edges[k] : k \in DOMAIN edges }

StepLimit == Cardinality(MapIds(sourceToTarget.val)) + 1

C21_ResolveTerminates ==
    /\ [](pc \in {"resolve", "resolved"} =>
            /\ probe.steps <= StepLimit
            /\ (pc = "resolve") = ~probe.returned
            /\ probe.returned =>
                  /\ probe.cur = resolve(sourceToTarget.val, probe.id)
                  /\ \/ probe.cur = probe.id
                     \/ probe.cur \in ReachedWithin(sourceToTarget.val, probe.id,
                                                    Cardinality(DOMAIN sourceToTarget.val)))
    /\ [][(pc = "resolve") => (probe'.steps = probe.steps + 1)]_vars

\* a cycle of every id, walked from one of its members: the limit is met
C21_Witness ==
    /\ pc = "resolved"
    /\ Cardinality(MapIds(sourceToTarget.val)) = MaxId
    /\ probe.steps = StepLimit
    /\ probe.cur = probe.id
    /\ sourceToTarget.val[probe.id] # probe.id

\* C22: a Translation Index key that holds the sentinel 0 holds 0 after every
\* later ingest step of the load, whatever the tag ingested, a further record
\* of an id that made the key ambiguous included.
C22_PoisonIsPermanent ==
    [][\A k \in DOMAIN translationIndex :
          (translationIndex[k] = 0) =>
              (k \in DOMAIN translationIndex' /\ translationIndex'[k] = 0)]_vars

\* tags i and j are of one namespace and one normalized translation, not empty
SameTranslationKey(i, j) ==
    /\ tags[i].namespace = tags[j].namespace
    /\ norm(tags[i].translation_text) = norm(tags[j].translation_text)
    /\ norm(tags[i].translation_text) # << >>
    /\ ~isOtherLike(tags[i].namespace)

\* two ids made the key ambiguous, a third record repeats the first id on it
C22_Witness ==
    /\ pc = "ingest"
    /\ Len(tags) = 3
    /\ tags[1].id # tags[2].id
    /\ tags[3].id = tags[1].id
    /\ SameTranslationKey(1, 2)
    /\ SameTranslationKey(1, 3)
    /\ translationIndex[nsKey(tags[1].namespace, norm(tags[1].translation_text))] = 0

\* the namespaces, and the normalized names and translations, of the loaded tags
LoadedNamespaces == { tags[i].namespace : i \in 1..Len(tags) }
LoadedKeys ==
    { norm(tags[i].name) : i \in 1..Len(tags) }
        \cup { norm(tags[i].translation_text) : i \in 1..Len(tags) }

\* the Translation Index entry of (ns, k) is what the tags of ns translated as k
\* make it: unset for none, their id for one id, 0 for two or more ids
EntryMeans(ns, k) ==
    LET key == nsKey(ns, k)
        holders == TranslatedAs(ns, k)
    IN  /\ (key \notin DOMAIN translationIndex) <=> (holders = {})
        /\ \A id \in Ids(tags) :
               (key \in DOMAIN translationIndex /\ translationIndex[key] = id)
                   <=> (holders = {id})
        /\ (key \in DOMAIN translationIndex /\ translationIndex[key] = 0)
               <=> (Cardinality(holders) >= 2)

\* C23: after ingesting any sequence of tags, for every non-otherlike namespace
\* ns and non-empty key k the Translation Index entry of (ns, k) is unset iff
\* no loaded tag of ns has normalized translation k, is an id iff all such tags
\* have that id, and is 0 iff two or more ids have it; every key of the index
\* is that of a loaded non-otherlike tag with a non-empty translation.
C23_IndexMeaning ==
    pc = "planned" =>
        /\ \A ns \in LoadedNamespaces \ OtherlikeNamespaces :
               \A k \in LoadedKeys \ {<< >>} : EntryMeans(ns, k)
        /\ \A key \in DOMAIN translationIndex :
               \E i \in 1..Len(tags) :
                   /\ ~IsOtherlikeTag(i)
                   /\ norm(tags[i].translation_text) # << >>
                   /\ key = nsKey(tags[i].namespace, norm(tags[i].translation_text))

\* C28: for every catalog with unique ids, every plan entry whose source tag is
\* not otherlike has its resolved target in exactly the namespace of the
\* source; only an otherlike source is merged across namespaces.
C28_NamespacePreserved ==
    (pc = "planned" /\ UniqueIds(tags)) =>
        \A m \in 1..Len(merges) :
            NamespaceOfId(merges[m].sourceId) \notin OtherlikeNamespaces =>
                NamespaceOfId(merges[m].targetId) = NamespaceOfId(merges[m].sourceId)

\* C25: whatever records the host's pages bring, overlapping pages and repeated
\* records included, no two records of the retained tag list have the same id.
C25_LoadedIdsUnique ==
    pc \in {"ingest", "planned"} => UniqueIds(tags)

\* the reports of one phase, in order
ReportsOf(phase) == SelectSeq(progress, LAMBDA r : r.phase = phase)

\* the reports come in the order of the phases
PhasesInOrder ==
    progress = ReportsOf("Loading") \o ReportsOf("Building") \o ReportsOf("Merging")

\* C26: every value reported while pages are loaded is at most 60; the
\* plan-building checkpoint reports exactly 65, once; every value reported
\* while merges are applied lies in 70..100; and merge progress is reported
\* before the merge calls number 0, 50, 100, ... and before no other.
C26_ProgressRanges ==
    /\ PhasesInOrder
    /\ \A i \in 1..Len(ReportsOf("Loading")) : ReportsOf("Loading")[i].value <= 60
    /\ \A i \in 1..Len(ReportsOf("Building")) : ReportsOf("Building")[i].value = 65
    /\ Len(ReportsOf("Building")) = (IF pc \in {"init", "first", "page"} THEN 0
                                     ELSE IF ListFailed THEN 0 ELSE 1)
    /\ \A i \in 1..Len(ReportsOf("Merging")) :
           /\ ReportsOf("Merging")[i].value \in 70..100
           /\ ReportsOf("Merging")[i].at = 50 * (i - 1)
    /\ Len(ReportsOf("Merging")) = CeilDiv(Len(MergeCalls), 50)

\* every planned merge applied, more than a hundred: the third report came
\* before call number 100; the catalog was loaded in more than one page
C26_Witness ==
    /\ pc = "done"
    /\ applied = BulkTags - 1
    /\ applied > 100
    /\ Len(ReportsOf("Merging")) = 3
    /\ ReportsOf("Merging")[3].at = 100
    /\ ReportsOf("Loading") # << >>

\* the plan of a table listed in one page
PlanOfTable(table) ==
    BuildPlan(BuildEdges(ingest(EmptyLoad, table)), ingest(EmptyLoad, table).idToNs)

\* the host's table in another listing order
Reordered(p) == [i \in 1..Len(hostTags) |-> hostTags[p[i]]]

\* C27: for a catalog with unique ids the plan the run builds, whatever the page
\* size it loaded the catalog with, is the plan of every permutation of the
\* catalog's records: the listing order and the split into pages change no
\* planned merge.
C27_OrderIndependent ==
    (LoadingOver /\ UniqueIds(tags)) =>
        \A p \in Permutations(1..Len(hostTags)) : merges = PlanOfTable(Reordered(p))

\* three tags loaded in more than one page, with merges planned, and a
\* translation key that two of them make ambiguous
C27_Witness ==
    /\ LoadingOver
    /\ Len(hostTags) = MaxHostTags
    /\ Len(ListCalls) >= 2
    /\ merges # << >>
    /\ \E k \in DOMAIN translationIndex : translationIndex[k] = 0

\* the ids the plan names, as source or as target
PlanIds ==
    { merges[m].sourceId : m \in 1..Len(merges) }
        \cup { merges[m].targetId : m \in 1..Len(merges) }

\* the ids of the records the loader skipped (a record without a finite id has
\* no id to name)
SkippedIds ==
    { hostTags[i].id.n : i \in { x \in 1..Len(hostTags) :
                                    ~hostTags[x].id.nan /\ hostTags[x].id.n <= 0 } }

\* C29: every sourceId and every targetId of the final plan is the id of a tag
\* retained by the loader in this run, hence the id of a record the host
\* listed with a finite positive id; neither the sentinel 0 nor the id of a
\* skipped record is in the plan.
C29_PlanIdsAreLoaded ==
    pc = "planned" =>
        /\ PlanIds \subseteq Ids(tags)
        /\ PlanIds \subseteq ValidIds
        /\ 0 \notin PlanIds
        /\ PlanIds \cap SkippedIds = {}

\* a skipped record of a namespace carries as translation the name of a loaded
\* tag of that namespace (indexed, it would be that tag's target), and merges
\* are planned
C29_Witness ==
    /\ pc = "planned"
    /\ merges # << >>
    /\ \E i \in 1..Len(hostTags) :
          /\ ~ValidId(hostTags[i])
          /\ ~isOtherLike(Trim(hostTags[i].namespace))
          /\ \E j \in 1..Len(tags) :
                /\ tags[j].namespace = Trim(hostTags[i].namespace)
                /\ norm(tags[j].name) = norm(hostTags[i].translation_text)

\* the item the loader is about to ingest is a record it has ingested before
AtRepeat ==
    /\ pc = "ingest"
    /\ cursor < Len(hostTags)
    /\ \E j \in 1..cursor : hostTags[j] = hostTags[cursor + 1]

\* the items without the later occurrences of a record
RECURSIVE WithoutRepeats(_)
WithoutRepeats(items) ==
    IF items = << >> THEN << >>
    ELSE LET before == SubSeq(items, 1, Len(items) - 1)
             last == items[Len(items)]
         IN  IF \E j \in 1..Len(before) : before[j] = last
             THEN WithoutRepeats(before)
             ELSE Append(WithoutRepeats(before), last)

\* C30: ingesting a record that was ingested before (same id, namespace, name
\* and translation) changes neither the Translation Index nor the Canonical
\* Candidate Index and adds one to the retained tags; the plan computed after
\* the load is the plan of the items without their repeats, and the tags
\* counted (total_tags) are the items, repeats included.
C30_ReingestionNeutral ==
    /\ [][AtRepeat =>
             /\ translationIndex' = translationIndex
             /\ canonicalCandidates' = canonicalCandidates
             /\ Len(tags') = Len(tags) + 1]_vars
    /\ [](pc = "planned" =>
             /\ merges = PlanOfTable(WithoutRepeats(hostTags))
             /\ Len(tags) = Len(hostTags))

=============================================================================
